---- MODULE Spec2Model ----
(***************************************************************************)
(* Model of the CoinGecko market-cap ETL: the backfill scheduler           *)
(* (RunBackfill), the incremental pass (runIncrementalOnce), the worker    *)
(* pool (worker / handleTask) and main's control flow.                     *)
(*                                                                         *)
(* Dates are calendar days counted as integers.  The ClickHouse table is   *)
(* a bag of rows per coin (one row per inserted day, duplicates kept);     *)
(* rows of an insert that the table does not report yet are held in lag    *)
(* until the table settles.  Log output and the counters that only feed    *)
(* log lines (doneTasks, sumInserted, sumErrors, ...) are left out.        *)
(***************************************************************************)
EXTENDS Integers, Sequences, FiniteSets, Bags, TLC

VARIABLES
    pc,         \* where main / RunBackfill / runIncrementalOnce stands
    round,      \* RunBackfill: round
    states,     \* RunBackfill: states, coin id -> CoinState
    active,     \* RunBackfill: active (ids of the coins tagged ActiveNow)
    activeCoins,\* main: activeCoins, the target set of the incremental pass
    pending,    \* the dispatch loop's pending list
    inFlight,   \* the dispatch loop's inFlight counter
    tasksCh,    \* main: tasksCh, buffered channel of Task
    resultsCh,  \* main: resultsCh, buffered channel of TaskResult
    wpc,        \* per worker: "idle" | "push" | "returned" | "exited"
    wtask,      \* per worker: the task it dequeued
    wres,       \* per worker: the result handleTask returned
    cancelled,  \* ctx.Done() is closed
    store,      \* the table: coin id -> bag of days (one copy per row)
    lag,        \* coin id -> days written that the table does not report yet
    apiData,    \* what the API holds: coin id -> set of days with samples
    activeAPI,  \* fetchCoinsLists: ids of the API's active list
    faults,     \* history: failures the workers have met so far
    owed,       \* history: retry tasks requeued since the last send
    runs,       \* history: handleTask executions per window in this round/pass
    doneVia,    \* history: how each coin became Done ("", "result", "floor")
    last,       \* history: the answers and calls of a handleTask run on its own
    dropped,    \* history: windows whose result the running pass dropped for its error
    tagged,     \* history: coins with a result received by RunBackfill that had ActiveNow
    cfgStartDate, \* cfg.StartDate, the floor of the backfill
    slept       \* the attempt number and the value of a backoffSleep run on its own

vars == <<pc, round, states, active, activeCoins, pending, inFlight, tasksCh,
          resultsCh, wpc, wtask, wres, cancelled, store, lag, apiData,
          activeAPI, faults, owed, runs, doneVia, last, dropped, tagged,
          cfgStartDate, slept>>

----------------------------------------------------------------------------
(* Bounds of the model and configuration values.                           *)

NumCoins == 2
Workers == 2
StartDate == 0
Yday == 110
EmptyStopBlocks == 2
MaxSearchBlocks == 2
MaxRetriesPerBlock == 1
RoundCap == 3
\* failed fetches and failed or lagging table calls that the workers meet in
\* one run of the system
MaxFaults == 2

\* makeTaskFixedWindow: end.AddDate(0, 0, -99); BuildIncrementalTasks: +99
WindowSpan == 99
\* handleTask: yday.AddDate(0, 0, -2)
ActiveTolerance == 2

Coins == 1..NumCoins
WorkerIds == 1..Workers
TasksCap == Workers * 2
ResultsCap == Workers * 4

PhaseBackfill == "backfill"
PhaseIncremental == "incremental"

----------------------------------------------------------------------------
(* util.go                                                                 *)

daysInclusive(from, to) == IF to < from THEN {} ELSE from..to

\* a test that takes every status for transient
isRetryableAny(code) == TRUE

isRetryableStatus(code) ==
    \/ code = 0
    \/ code \in {408, 425, 429, 500, 502, 503, 504}

MinOf(S) == CHOOSE x \in S : \A y \in S : x <= y
MaxOf(S) == 0 - MinOf({0 - x : x \in S})

\* the days of S within lo..hi, ascending (sort.Strings on formatted dates)
RECURSIVE SortedSeq(_, _, _)
SortedSeq(S, lo, hi) ==
    IF S = {} \/ lo > hi THEN <<>>
    ELSE IF lo = hi THEN (IF lo \in S THEN <<lo>> ELSE <<>>)
    ELSE LET mid == (lo + hi) \div 2
         IN SortedSeq({d \in S : d <= mid}, lo, mid)
            \o SortedSeq({d \in S : d > mid}, mid + 1, hi)

SeqToSet(s) == {s[i] : i \in DOMAIN s}

----------------------------------------------------------------------------
(* The table.                                                              *)

\* the days the table reports for a coin
Visible(c) == BagToSet(store[c]) \ lag[c]

\* a presence query that leaves out the two ends of the range
getExistingDaysOpen(vis, from, to) == {d \in vis : d > from /\ d < to}

\* the days the table reports for the coin in [from, to]
getExistingDays(vis, from, to) == {d \in vis : d >= from /\ d <= to}

\* getMinDate / getMaxDate: <<ok, day>>
getMinDate(vis) == IF vis = {} THEN <<FALSE, 0>> ELSE <<TRUE, MinOf(vis)>>
getMaxDate(vis) == IF vis = {} THEN <<FALSE, 0>> ELSE <<TRUE, MaxOf(vis)>>

----------------------------------------------------------------------------
(* scheduler.go: tasks                                                     *)

Task(coin, from, to, retry, phase) ==
    [CoinID |-> coin, From |-> from, To |-> to, Retry |-> retry, Phase |-> phase]

NoTask == Task(0, 0, 0, 0, "")

\* a window that is not cut at the floor
makeTaskUnclamped(coinID, end, startLimit) ==
    IF end < startLimit
    THEN <<NoTask, FALSE>>
    ELSE <<Task(coinID, end - WindowSpan, end, 0, PhaseBackfill), TRUE>>

\* <<task, ok>>
makeTaskFixedWindow(coinID, end, startLimit) ==
    IF end < startLimit
    THEN <<NoTask, FALSE>>
    ELSE LET start == IF end - WindowSpan < startLimit THEN startLimit
                      ELSE end - WindowSpan
         IN <<Task(coinID, start, end, 0, PhaseBackfill), TRUE>>

\* windows that are one day too long
RECURSIVE IncrementalWindowsWide(_, _, _)
IncrementalWindowsWide(id, cur, yday) ==
    IF cur > yday THEN <<>>
    ELSE LET end == IF cur + WindowSpan + 1 > yday THEN yday
                    ELSE cur + WindowSpan + 1
         IN <<Task(id, cur, end, 0, PhaseIncremental)>>
            \o IncrementalWindowsWide(id, end + 1, yday)

\* the windows BuildIncrementalTasks cuts for one coin, from cur to yday
RECURSIVE IncrementalWindows(_, _, _)
IncrementalWindows(id, cur, yday) ==
    IF cur > yday THEN <<>>
    ELSE LET end == IF cur + WindowSpan > yday THEN yday ELSE cur + WindowSpan
         IN <<Task(id, cur, end, 0, PhaseIncremental)>>
            \o IncrementalWindows(id, end + 1, yday)

\* order: the coins in slice order; maxDates: coin id -> <<ok, day>>
RECURSIVE BuildIncrementalTasks(_, _, _)
BuildIncrementalTasks(order, maxDates, yday) ==
    IF order = <<>> THEN <<>>
    ELSE LET id == Head(order)
             md == maxDates[id]
             mine == IF ~md[1] THEN <<>>
                     ELSE IF md[2] + 1 > yday THEN <<>>
                     ELSE IncrementalWindows(id, md[2] + 1, yday)
         IN mine \o BuildIncrementalTasks(Tail(order), maxDates, yday)

----------------------------------------------------------------------------
(* worker.go: handleTask                                                   *)

\* one answer of cg.MarketChartRange: err, and the status it came with
FetchOK == [err |-> FALSE, status |-> 200]
FetchFail(code) == [err |-> TRUE, status |-> code]

\* the for loop of handleTask: attempt 0..MaxRetriesPerBlock; outs[a + 1] is the
\* answer of attempt a.  calls: fetches made; sleeps: backoff sleeps taken.
RECURSIVE FetchLoop(_, _)
FetchLoop(attempt, outs) ==
    LET o == outs[attempt + 1]
    IN IF ~o.err THEN [last |-> o, calls |-> attempt + 1, sleeps |-> attempt]
       ELSE IF ~isRetryableStatus(o.status)
            THEN [last |-> o, calls |-> attempt + 1, sleeps |-> attempt]
       ELSE IF attempt + 1 <= MaxRetriesPerBlock
            THEN FetchLoop(attempt + 1, outs)
       ELSE [last |-> o, calls |-> attempt + 1, sleeps |-> attempt + 1]

TaskResult(t, inserted, apiDays, empty, status, err, missing, activeNow) ==
    [Task |-> t, Inserted |-> inserted, APIDays |-> apiDays, Empty |-> empty,
     HTTPStatus |-> status, Err |-> err, MissingDates |-> missing,
     ActiveNow |-> activeNow]

NoResult == TaskResult(NoTask, 0, 0, FALSE, 0, "", <<>>, FALSE)

\* the liveness tag of handleTask, for a task that reached the verify step
ActiveNowTag(t, apiDays, yday) ==
    /\ (t.To = yday \/ t.To > yday - ActiveTolerance)
    /\ MaxOf(apiDays) >= yday - ActiveTolerance

\* what handleTask hands back: the TaskResult, the rows it wrote, whether the
\* table reports them yet, and the calls it made
Handled(res, rows, lagging, fetches, sleeps, inserts) ==
    [res |-> res, rows |-> rows, lagging |-> lagging, fetches |-> fetches,
     sleeps |-> sleeps, inserts |-> inserts]

\* a fast path that counts one day too many in the window
FastPathOffByOne(t, preErr, pre) ==
    LET allDays == daysInclusive(t.From, t.To)
    IN /\ ~preErr
       /\ t.Retry = 0
       /\ Cardinality(pre) = Cardinality(allDays) + 1
       /\ Cardinality(allDays) > 0

\* the fast path: the pre-check found every day of the window
FastPath(t, preErr, pre) ==
    LET allDays == daysInclusive(t.From, t.To)
    IN /\ ~preErr
       /\ t.Retry = 0
       /\ Cardinality(pre) = Cardinality(allDays)
       /\ Cardinality(allDays) > 0

\* a diff that takes every API day for absent
ToInsertAll(apiDays, existing) == apiDays

\* the days to insert: the API days the presence map does not hold
ToInsert(apiDays, existing) == {d \in apiDays : d \notin existing}

\* the rows an insert adds to the table
InsertRows(toInsert, insErr) == IF insErr THEN {} ELSE toInsert

\* t: the task; vis: the days the table reports for t.CoinID; api: the days
\* the API holds for t.CoinID; e: what the environment answers
\*   e.preErr  the pre-check query fails       e.fetch   the fetch answers
\*   e.reqErr  the second presence query fails e.insErr  the insert fails
\*   e.lagging the table does not report the written rows yet
\*   e.verErr  the verify query fails
handleTask(t, vis, api, e, yday) ==
    LET pre == getExistingDays(vis, t.From, t.To)
    IN IF FastPath(t, e.preErr, pre)
       THEN Handled(TaskResult(t, 0, 0, FALSE, 200, "", <<>>, FALSE),
                    {}, FALSE, 0, 0, 0)
       ELSE
       LET f == FetchLoop(0, e.fetch)
       IN IF f.last.err
          THEN Handled(TaskResult(t, 0, 0, TRUE, f.last.status, "fetch", <<>>, FALSE),
                       {}, FALSE, f.calls, f.sleeps, 0)
          ELSE
          LET apiDays == {d \in api : d >= t.From /\ d <= t.To}
          IN IF apiDays = {}
             THEN Handled(TaskResult(t, 0, 0, TRUE, 200, "", <<>>, FALSE),
                          {}, FALSE, f.calls, f.sleeps, 0)
             ELSE
             LET existing == IF ~e.preErr THEN pre
                             ELSE IF e.reqErr THEN {}
                             ELSE getExistingDays(vis, t.From, t.To)
                 toInsert == ToInsert(apiDays, existing)
                 calls    == IF toInsert = {} THEN 0 ELSE 1
                 insErr   == toInsert # {} /\ e.insErr
                 rows     == InsertRows(toInsert, insErr)
             IN IF insErr
                THEN Handled(TaskResult(t, 0, Cardinality(apiDays), FALSE, 200,
                                        "insert", <<>>, FALSE),
                             {}, FALSE, f.calls, f.sleeps, calls)
                ELSE
                LET seen  == IF e.lagging THEN vis ELSE vis \cup rows
                    after == getExistingDays(seen, t.From, t.To)
                    missing == IF e.verErr THEN <<>>
                               ELSE SortedSeq({d \in apiDays : d \notin after}, t.From, t.To)
                IN Handled(TaskResult(t, Cardinality(rows), Cardinality(apiDays),
                                      FALSE, 200, "", missing,
                                      ActiveNowTag(t, apiDays, yday)),
                           rows, e.lagging, f.calls, f.sleeps, calls)

----------------------------------------------------------------------------
(* What the environment may answer to one handleTask.                      *)

\* statuses a failed fetch comes with in the system model: 0 (network error,
\* cancelled context), 404 (permanent)
FailStatuses == {0, 404}

FetchAnswers == {FetchOK} \cup {FetchFail(code) : code \in FailStatuses}

\* the answers FetchLoop reads: failures it retries, then the answer it stops at
FetchRead(outs) ==
    LET n == FetchLoop(0, outs).calls
    IN \A i \in (n + 1)..Len(outs) : outs[i] = FetchOK

EnvRecords ==
    [preErr : BOOLEAN, fetch : [1..(MaxRetriesPerBlock + 1) -> FetchAnswers],
     reqErr : BOOLEAN, insErr : BOOLEAN, lagging : BOOLEAN, verErr : BOOLEAN]

\* one record per distinguishable run of handleTask: an answer handleTask cannot
\* come to read is held at its default
Envs ==
    {e \in EnvRecords :
        /\ FetchRead(e.fetch)
        /\ (~e.preErr => ~e.reqErr)
        /\ (FetchLoop(0, e.fetch).last.err =>
                ~e.reqErr /\ ~e.insErr /\ ~e.lagging /\ ~e.verErr)
        /\ (e.insErr => ~e.lagging /\ ~e.verErr)}

B2N(b) == IF b THEN 1 ELSE 0

\* the failures an environment record injects
FaultsOf(e) ==
    B2N(e.preErr) + B2N(e.reqErr) + B2N(e.insErr) + B2N(e.lagging) + B2N(e.verErr)
    + Cardinality({i \in DOMAIN e.fetch : e.fetch[i].err})

\* the answers handleTask was given and the calls it made
Calls(e, h) ==
    [e |-> e, fetches |-> h.fetches, sleeps |-> h.sleeps, inserts |-> h.inserts]

NoCalls == [e |-> <<>>, fetches |-> 0, sleeps |-> 0, inserts |-> 0]

\* no backoffSleep was run on its own
NoSleep == [attempt |-> 0, d |-> <<>>]

----------------------------------------------------------------------------
(* Initial state.                                                          *)

CoinState(searchEnd, searchEmpty, seenData, consecutiveEmpty, done) ==
    [SearchEnd |-> searchEnd, SearchEmpty |-> searchEmpty, SeenData |-> seenData,
     ConsecutiveEmpty |-> consecutiveEmpty, Done |-> done]

\* a coin of the environment: the days the API holds for it and the days the
\* table holds from an earlier run
Kind(api, held) == [api |-> api, held |-> held]

\* no history
KindNone == Kind({}, {})
\* listed two days ago, nothing stored yet
KindLive == Kind({Yday - 1, Yday}, {})
\* one old day and one recent day, nothing stored yet
KindSparse == Kind({StartDate, Yday}, {})
\* only the first day of the range, nothing stored yet
KindOld == Kind({StartDate}, {})
\* the days before the latest window, all stored by an earlier run
KindOldStored == Kind(StartDate..(Yday - WindowSpan - 1), StartDate..(Yday - WindowSpan - 1))
\* every day of the latest window, all stored by an earlier run
KindFullStored == Kind((Yday - WindowSpan)..Yday, (Yday - WindowSpan)..Yday)

\* coin 1 and coin 2 as given, every further coin without history
Scenario(k1, k2) ==
    [c \in Coins |-> IF c = 1 THEN k1 ELSE IF c = 2 THEN k2 ELSE KindNone]

Scenarios ==
    { Scenario(KindLive, KindNone),
      Scenario(KindLive, KindLive),
      Scenario(KindOld, KindLive),
      Scenario(KindSparse, KindNone),
      Scenario(KindOldStored, KindLive),
      Scenario(KindFullStored, KindNone) }

Init ==
    /\ pc = "bf_round"
    /\ round = 0
    /\ states = [c \in Coins |-> CoinState(Yday, 0, FALSE, 0, FALSE)]
    /\ active = {}
    /\ activeCoins = {}
    /\ pending = <<>>
    /\ inFlight = 0
    /\ tasksCh = <<>>
    /\ resultsCh = <<>>
    /\ wpc = [w \in WorkerIds |-> "idle"]
    /\ wtask = [w \in WorkerIds |-> NoTask]
    /\ wres = [w \in WorkerIds |-> NoResult]
    /\ cancelled = FALSE
    /\ \E sc \in Scenarios :
          /\ apiData = [c \in Coins |-> sc[c].api]
          /\ store = [c \in Coins |-> SetToBag(sc[c].held)]
    /\ lag = [c \in Coins |-> {}]
    /\ activeAPI \in {{}, Coins}
    /\ faults = 0
    /\ owed = <<>>
    /\ runs = EmptyBag
    /\ doneVia = [c \in Coins |-> ""]
    /\ last = NoCalls
    /\ dropped = {}
    /\ tagged = {}
    /\ cfgStartDate = StartDate
    /\ slept = NoSleep

----------------------------------------------------------------------------
(* scheduler.go: RunBackfill                                               *)

Alive == pc \notin {"exit0", "fatal"}

RECURSIVE Perms(_)
Perms(S) ==
    IF S = {} THEN {<<>>}
    ELSE UNION {{<<x>> \o p : p \in Perms(S \ {x})} : x \in S}

\* getMinDate and getMaxDate read the table once it reports what the finished
\* round or pass wrote
TableSettled == \A c \in Coins : lag[c] = {}

\* an end date that does not step back from the first stored day
WindowEndAtMin(rnd, st, vis, minFail, yday) ==
    IF rnd = 0 THEN yday
    ELSE LET m == getMinDate(vis)
         IN IF ~minFail /\ m[1] THEN m[2] ELSE st.SearchEnd

\* the end date of a coin's window in this round; minFail: getMinDate fails
WindowEnd(rnd, st, vis, minFail, yday) ==
    IF rnd = 0 THEN yday
    ELSE LET m == getMinDate(vis)
         IN IF ~minFail /\ m[1] THEN m[2] - 1 ELSE st.SearchEnd

\* the task of a coin that is not done, or <<NoTask, FALSE>>
RoundTask(c, minFail) ==
    makeTaskFixedWindow(c, WindowEnd(round, states[c], Visible(c), minFail, Yday),
                        cfgStartDate)

\* a loop test that forgets the tasks in flight
LoopOnPending(p, n) == Len(p) > 0

\* the loop test of the dispatch loop
LoopOn(p, n) == Len(p) > 0 \/ n > 0

NextRound(r) == IF r < RoundCap THEN r + 1 ELSE r

\* a pass that does not skip the coins that are Done
OpenCoinsAll == Coins

\* a pass that takes every coin for Done
OpenCoinsNone == {}

\* lines 114-118: the coins the pass goes on with
OpenCoins == {c \in Coins : ~states[c].Done}

\* lines 108-151: one pass over states; the map is ranged over in any order
BackfillScheduleRound ==
    /\ pc = "bf_round"
    /\ TableSettled
    /\ \E minFail \in [Coins -> BOOLEAN] :
         /\ \A c \in Coins :
               minFail[c] => (round > 0 /\ ~states[c].Done /\ Visible(c) # {})
         /\ LET open == OpenCoins
                sched == {c \in open : RoundTask(c, minFail[c])[2]}
            IN /\ states' = [c \in Coins |->
                                IF c \in open \ sched
                                THEN [states[c] EXCEPT !.Done = TRUE]
                                ELSE states[c]]
               /\ doneVia' = [c \in Coins |->
                                IF c \in open \ sched THEN "floor" ELSE doneVia[c]]
               /\ IF sched = {}
                  THEN /\ pc' = "bf_return"
                       /\ pending' = <<>>
                  ELSE /\ pc' = "bf_select"
                       /\ \E order \in Perms(sched) :
                             pending' = [i \in 1..Len(order) |->
                                            RoundTask(order[i], minFail[order[i]])[1]]
    /\ inFlight' = 0
    /\ owed' = <<>>
    /\ runs' = EmptyBag
    /\ UNCHANGED <<round, active, activeCoins, tasksCh, resultsCh, wpc, wtask,
                   wres, cancelled, store, lag, apiData, activeAPI, faults, last,
                   dropped, tagged,
                   cfgStartDate, slept>>

\* a requeue test without the retry limit
NeedsRetryUnbounded(res) == Len(res.MissingDates) > 0

\* the requeue test, shared by RunBackfill and runIncrementalOnce
NeedsRetry(res) ==
    Len(res.MissingDates) > 0 /\ res.Task.Retry < MaxRetriesPerBlock

RetryOf(t) == [t EXCEPT !.Retry = t.Retry + 1]

\* a requeue at the back of pending
RequeueBack(rt, p) == p \o <<rt>>

\* pending = append([]Task{rt}, pending...)
Requeue(rt, p) == <<rt>> \o p

\* a data test that does not look at the error text
blockHasDataAnyErr(res) == ~res.Empty /\ res.APIDays > 0

\* line 224
blockHasData(res) == res.Err = "" /\ ~res.Empty /\ res.APIDays > 0

\* counters that leave the search-end cursor where it is
CountedNoCursor(st, res) ==
    IF blockHasData(res)
    THEN [st EXCEPT !.SeenData = TRUE, !.SearchEmpty = 0, !.ConsecutiveEmpty = 0]
    ELSE IF st.SeenData
         THEN [st EXCEPT !.ConsecutiveEmpty = st.ConsecutiveEmpty + 1]
         ELSE [st EXCEPT !.SearchEmpty = st.SearchEmpty + 1]

\* lines 226-265: the counters after a terminal result
Counted(st, res) ==
    IF blockHasData(res)
    THEN [st EXCEPT !.SeenData = TRUE, !.SearchEmpty = 0, !.ConsecutiveEmpty = 0]
    ELSE IF st.SeenData
         THEN [st EXCEPT !.ConsecutiveEmpty = st.ConsecutiveEmpty + 1]
         ELSE [st EXCEPT !.SearchEmpty = st.SearchEmpty + 1,
                         !.SearchEnd = res.Task.From - 1]

\* a completion test that asks for one block more
CompletedLate(st) ==
    \/ st.SeenData /\ st.ConsecutiveEmpty > EmptyStopBlocks
    \/ ~st.SeenData /\ st.SearchEmpty > MaxSearchBlocks

\* lines 267-283: the completion test
Completed(st) ==
    \/ st.SeenData /\ st.ConsecutiveEmpty >= EmptyStopBlocks
    \/ ~st.SeenData /\ st.SearchEmpty >= MaxSearchBlocks

Closed(st) == IF Completed(st) THEN [st EXCEPT !.Done = TRUE] ELSE st

\* the process ends: its goroutines and channels are gone, the table stays
ProcessExit(how) ==
    /\ pc' = how
    /\ pending' = <<>>
    /\ inFlight' = 0
    /\ tasksCh' = <<>>
    /\ resultsCh' = <<>>
    /\ wpc' = [w \in WorkerIds |-> "exited"]
    /\ wtask' = [w \in WorkerIds |-> NoTask]
    /\ wres' = [w \in WorkerIds |-> NoResult]
    /\ owed' = <<>>
    /\ runs' = EmptyBag
    /\ UNCHANGED <<round, states, active, activeCoins, cancelled, store, lag,
                   apiData, activeAPI, faults, doneVia, last, dropped, tagged,
                   cfgStartDate, slept>>

\* lines 173-174 and 309-310: case <-ctx.Done(): return active, ctx.Err();
\* main.go lines 63-65: log.Fatalf
BfCtxDone ==
    /\ pc \in {"bf_select", "bf_send"}
    /\ cancelled
    /\ ProcessExit("fatal")

\* an outer select whose default competes with a ready result
DefaultAnyTime == ~cancelled

\* the outer select takes its default only when no other case is ready
DefaultReady == ~cancelled /\ Len(resultsCh) = 0

\* lines 176-297: case res := <-results
BfResult ==
    /\ pc = "bf_select"
    /\ Len(resultsCh) > 0
    /\ LET res == Head(resultsCh)
           id  == res.Task.CoinID
           st  == states[id]
           n   == inFlight - 1
       IN /\ resultsCh' = Tail(resultsCh)
          /\ inFlight' = n
          /\ tagged' = IF res.ActiveNow THEN tagged \cup {id} ELSE tagged
          /\ IF st.Done
             THEN /\ UNCHANGED <<states, active, pending, owed, doneVia>>
                  /\ pc' = IF LoopOn(pending, n) THEN "bf_select" ELSE "bf_round"
                  /\ round' = IF LoopOn(pending, n) THEN round ELSE NextRound(round)
             ELSE IF NeedsRetry(res)
             THEN /\ pending' = Requeue(RetryOf(res.Task), pending)
                  /\ owed' = Append(owed, RetryOf(res.Task))
                  /\ pc' = "bf_select"
                  /\ UNCHANGED <<states, active, round, doneVia>>
             ELSE /\ active' = IF res.ActiveNow THEN active \cup {id} ELSE active
                  /\ states' = [states EXCEPT ![id] = Closed(Counted(st, res))]
                  /\ doneVia' = [doneVia EXCEPT
                                   ![id] = IF states'[id].Done THEN "result" ELSE @]
                  /\ pc' = IF LoopOn(pending, n) THEN "bf_select" ELSE "bf_round"
                  /\ round' = IF LoopOn(pending, n) THEN round ELSE NextRound(round)
                  /\ UNCHANGED <<pending, owed>>
    /\ UNCHANGED <<activeCoins, tasksCh, wpc, wtask, wres, cancelled, store, lag,
                   apiData, activeAPI, faults, runs, last, dropped,
                   cfgStartDate, slept>>

\* line 299: default of the outer select
BfDefault ==
    /\ pc = "bf_select"
    /\ DefaultReady
    /\ pc' = "bf_send"
    /\ UNCHANGED <<round, states, active, activeCoins, pending, inFlight, tasksCh,
                   resultsCh, wpc, wtask, wres, cancelled, store, lag, apiData,
                   activeAPI, faults, owed, runs, doneVia, last, dropped, tagged,
                   cfgStartDate, slept>>

\* outCh <- next can proceed: outCh is nil when pending is empty
SendReady == Len(pending) > 0 /\ Len(tasksCh) < TasksCap

\* lines 311-313: case outCh <- next
BfSend ==
    /\ pc = "bf_send"
    /\ SendReady
    /\ tasksCh' = Append(tasksCh, Head(pending))
    /\ pending' = Tail(pending)
    /\ inFlight' = inFlight + 1
    /\ owed' = <<>>
    /\ pc' = "bf_select"
    /\ UNCHANGED <<round, states, active, activeCoins, resultsCh, wpc, wtask, wres,
                   cancelled, store, lag, apiData, activeAPI, faults, runs, doneVia, last, dropped, tagged,
                   cfgStartDate, slept>>

\* lines 314-315: default of the inner select, time.Sleep
BfSleep ==
    /\ pc = "bf_send"
    /\ ~cancelled
    /\ ~SendReady
    /\ pc' = "bf_select"
    /\ UNCHANGED <<round, states, active, activeCoins, pending, inFlight, tasksCh,
                   resultsCh, wpc, wtask, wres, cancelled, store, lag, apiData,
                   activeAPI, faults, owed, runs, doneVia, last, dropped, tagged,
                   cfgStartDate, slept>>

----------------------------------------------------------------------------
(* main.go: main and runIncrementalOnce                                    *)

\* lines 62-71: RunBackfill returned nil; the incremental target set
MainAfterBackfill ==
    /\ pc = "bf_return"
    /\ activeCoins' = IF activeAPI # {} THEN activeAPI ELSE active
    /\ pc' = "main_loop"
    /\ UNCHANGED <<round, states, active, pending, inFlight, tasksCh, resultsCh,
                   wpc, wtask, wres, cancelled, store, lag, apiData, activeAPI,
                   faults, owed, runs, doneVia, last, dropped, tagged,
                   cfgStartDate, slept>>

\* lines 79-82 and 88-90: case <-ctx.Done(): return
MainCtxDone ==
    /\ pc \in {"main_loop", "main_wait"}
    /\ cancelled
    /\ ProcessExit("exit0")

\* line 91: case <-ticker.C
MainTick ==
    /\ pc = "main_wait"
    /\ pc' = "main_loop"
    /\ UNCHANGED <<round, states, active, activeCoins, pending, inFlight, tasksCh,
                   resultsCh, wpc, wtask, wres, cancelled, store, lag, apiData,
                   activeAPI, faults, owed, runs, doneVia, last, dropped, tagged,
                   cfgStartDate, slept>>

\* lines 176-190: maxDates; maxFail: getMaxDate fails for the coin
MaxDates(maxFail) ==
    [c \in Coins |-> IF maxFail[c] THEN <<FALSE, 0>> ELSE getMaxDate(Visible(c))]

\* lines 83-86 and 171-204: the default of main's select, then the head of
\* runIncrementalOnce up to the dispatch loop
IncStart ==
    /\ pc = "main_loop"
    /\ ~cancelled
    /\ TableSettled
    /\ \E maxFail \in [Coins -> BOOLEAN], order \in Perms(activeCoins) :
         /\ \A c \in Coins : maxFail[c] => (c \in activeCoins /\ Visible(c) # {})
         /\ LET tasks == BuildIncrementalTasks(order, MaxDates(maxFail), Yday)
            IN /\ pending' = tasks
               /\ pc' = IF Len(tasks) = 0 THEN "main_wait" ELSE "inc_select"
    /\ inFlight' = 0
    /\ owed' = <<>>
    /\ runs' = EmptyBag
    /\ dropped' = {}
    /\ UNCHANGED <<round, states, active, activeCoins, tasksCh, resultsCh, wpc,
                   wtask, wres, cancelled, store, lag, apiData, activeAPI, faults,
                   doneVia, last, tagged,
                   cfgStartDate, slept>>

\* lines 208-209 and 241-242: case <-ctx.Done(): return
IncCtxDone ==
    /\ pc \in {"inc_select", "inc_send"}
    /\ cancelled
    /\ pc' = "main_wait"
    /\ UNCHANGED <<round, states, active, activeCoins, pending, inFlight, tasksCh,
                   resultsCh, wpc, wtask, wres, cancelled, store, lag, apiData,
                   activeAPI, faults, owed, runs, doneVia, last, dropped, tagged,
                   cfgStartDate, slept>>

\* lines 211-230: case res := <-resultsCh
IncResult ==
    /\ pc = "inc_select"
    /\ Len(resultsCh) > 0
    /\ LET res == Head(resultsCh)
           n   == inFlight - 1
       IN /\ resultsCh' = Tail(resultsCh)
          /\ inFlight' = n
          /\ dropped' = IF res.Err # "" THEN dropped \cup {res.Task} ELSE dropped
          /\ IF res.Err # ""
             THEN /\ UNCHANGED <<pending, owed>>
                  /\ pc' = IF LoopOn(pending, n) THEN "inc_select" ELSE "main_wait"
             ELSE IF NeedsRetry(res)
             THEN /\ pending' = Requeue(RetryOf(res.Task), pending)
                  /\ owed' = Append(owed, RetryOf(res.Task))
                  /\ pc' = "inc_select"
             ELSE /\ UNCHANGED <<pending, owed>>
                  /\ pc' = IF LoopOn(pending, n) THEN "inc_select" ELSE "main_wait"
    /\ UNCHANGED <<round, states, active, activeCoins, tasksCh, wpc, wtask, wres,
                   cancelled, store, lag, apiData, activeAPI, faults, runs, doneVia,
                   last, tagged,
                   cfgStartDate, slept>>

\* line 232: default of the outer select
IncDefault ==
    /\ pc = "inc_select"
    /\ DefaultReady
    /\ pc' = "inc_send"
    /\ UNCHANGED <<round, states, active, activeCoins, pending, inFlight, tasksCh,
                   resultsCh, wpc, wtask, wres, cancelled, store, lag, apiData,
                   activeAPI, faults, owed, runs, doneVia, last, dropped, tagged,
                   cfgStartDate, slept>>

\* lines 243-245: case outCh <- next
IncSend ==
    /\ pc = "inc_send"
    /\ SendReady
    /\ tasksCh' = Append(tasksCh, Head(pending))
    /\ pending' = Tail(pending)
    /\ inFlight' = inFlight + 1
    /\ owed' = <<>>
    /\ pc' = "inc_select"
    /\ UNCHANGED <<round, states, active, activeCoins, resultsCh, wpc, wtask, wres,
                   cancelled, store, lag, apiData, activeAPI, faults, runs, doneVia, last, dropped, tagged,
                   cfgStartDate, slept>>

\* lines 246-247: default of the inner select, time.Sleep
IncSleep ==
    /\ pc = "inc_send"
    /\ ~cancelled
    /\ ~SendReady
    /\ pc' = "inc_select"
    /\ UNCHANGED <<round, states, active, activeCoins, pending, inFlight, tasksCh,
                   resultsCh, wpc, wtask, wres, cancelled, store, lag, apiData,
                   activeAPI, faults, owed, runs, doneVia, last, dropped, tagged,
                   cfgStartDate, slept>>

\* lines 29-35: the signal goroutine calls cancel()
Cancel ==
    /\ Alive
    /\ ~cancelled
    /\ cancelled' = TRUE
    /\ UNCHANGED <<pc, round, states, active, activeCoins, pending, inFlight,
                   tasksCh, resultsCh, wpc, wtask, wres, store, lag, apiData,
                   activeAPI, faults, owed, runs, doneVia, last, dropped, tagged,
                   cfgStartDate, slept>>

----------------------------------------------------------------------------
(* worker.go: worker                                                       *)

\* lines 23-24: case <-ctx.Done(): return
WorkerReturn(w) ==
    /\ Alive
    /\ wpc[w] = "idle"
    /\ cancelled
    /\ wpc' = [wpc EXCEPT ![w] = "returned"]
    /\ UNCHANGED <<pc, round, states, active, activeCoins, pending, inFlight,
                   tasksCh, resultsCh, wtask, wres, cancelled, store, lag, apiData,
                   activeAPI, faults, owed, runs, doneVia, last, dropped, tagged,
                   cfgStartDate, slept>>

WindowKey(t) == <<t.CoinID, t.From, t.To>>

\* the table after handleTask wrote rows
Written(bag, rows) == bag (+) SetToBag(rows)

\* the rows the table does not report yet, after handleTask
Lagging(held, vis, h) ==
    IF h.lagging THEN held \cup (h.rows \ vis) ELSE held \ h.rows

\* lines 25-29: case t, ok := <-tasks, then res := handleTask(ctx, cfg, cg, db, t)
WorkerRun(w) ==
    /\ Alive
    /\ wpc[w] = "idle"
    /\ Len(tasksCh) > 0
    /\ tasksCh' = Tail(tasksCh)
    /\ wtask' = [wtask EXCEPT ![w] = Head(tasksCh)]
    /\ \E e \in Envs :
         LET t == Head(tasksCh)
             c == t.CoinID
             h == handleTask(t, Visible(c), apiData[c], e, Yday)
         IN /\ faults + FaultsOf(e) <= MaxFaults
            /\ faults' = faults + FaultsOf(e)
            /\ wres' = [wres EXCEPT ![w] = h.res]
            /\ store' = [store EXCEPT ![c] = Written(store[c], h.rows)]
            /\ lag' = [lag EXCEPT ![c] = Lagging(lag[c], Visible(c), h)]
            /\ runs' = runs (+) SetToBag({WindowKey(t)})
    /\ wpc' = [wpc EXCEPT ![w] = "push"]
    /\ UNCHANGED <<pc, round, states, active, activeCoins, pending, inFlight,
                   resultsCh, cancelled, apiData, activeAPI, owed, doneVia, last, dropped, tagged,
                   cfgStartDate, slept>>

\* a worker that pushes its result twice
WorkerPushTwice(w) ==
    /\ Alive
    /\ wpc[w] = "push"
    /\ Len(resultsCh) + 1 < ResultsCap
    /\ resultsCh' = Append(Append(resultsCh, wres[w]), wres[w])
    /\ wpc' = [wpc EXCEPT ![w] = "idle"]
    /\ wtask' = [wtask EXCEPT ![w] = NoTask]
    /\ wres' = [wres EXCEPT ![w] = NoResult]
    /\ UNCHANGED <<pc, round, states, active, activeCoins, pending, inFlight,
                   tasksCh, cancelled, store, lag, apiData, activeAPI, faults, owed,
                   runs, doneVia, last, dropped, tagged,
                   cfgStartDate, slept>>

\* line 30: results <- res
WorkerPush(w) ==
    /\ Alive
    /\ wpc[w] = "push"
    /\ Len(resultsCh) < ResultsCap
    /\ resultsCh' = Append(resultsCh, wres[w])
    /\ wpc' = [wpc EXCEPT ![w] = "idle"]
    /\ wtask' = [wtask EXCEPT ![w] = NoTask]
    /\ wres' = [wres EXCEPT ![w] = NoResult]
    /\ UNCHANGED <<pc, round, states, active, activeCoins, pending, inFlight,
                   tasksCh, cancelled, store, lag, apiData, activeAPI, faults, owed,
                   runs, doneVia, last, dropped, tagged,
                   cfgStartDate, slept>>

\* the table comes to report the rows written to it
Settle ==
    /\ Alive
    /\ \E c \in Coins : lag[c] # {}
    /\ lag' = [c \in Coins |-> {}]
    /\ UNCHANGED <<pc, round, states, active, activeCoins, pending, inFlight,
                   tasksCh, resultsCh, wpc, wtask, wres, cancelled, store, apiData,
                   activeAPI, faults, owed, runs, doneVia, last, dropped, tagged,
                   cfgStartDate, slept>>

----------------------------------------------------------------------------

Next ==
    \/ BackfillScheduleRound
    \/ BfCtxDone
    \/ BfResult
    \/ BfDefault
    \/ BfSend
    \/ BfSleep
    \/ MainAfterBackfill
    \/ MainCtxDone
    \/ MainTick
    \/ IncStart
    \/ IncCtxDone
    \/ IncResult
    \/ IncDefault
    \/ IncSend
    \/ IncSleep
    \/ Cancel
    \/ Settle
    \/ \E w \in WorkerIds : WorkerReturn(w)
    \/ \E w \in WorkerIds : WorkerRun(w)
    \/ \E w \in WorkerIds : WorkerPush(w)

Spec == Init /\ [][Next]_vars

----------------------------------------------------------------------------
(* RunBackfill on its own, with no cancellation: every goroutine keeps     *)
(* running (the Go scheduler starves none), every call returns, and the    *)
(* table comes to report what was written to it.                           *)

Scheduler ==
    \/ BackfillScheduleRound
    \/ BfResult
    \/ BfDefault
    \/ BfSend
    \/ BfSleep

NextBackfill ==
    \/ BackfillScheduleRound
    \/ BfResult
    \/ BfDefault
    \/ BfSend
    \/ BfSleep
    \/ Settle
    \/ \E w \in WorkerIds : WorkerRun(w)
    \/ \E w \in WorkerIds : WorkerPush(w)

FairBackfill ==
    /\ WF_vars(Scheduler)
    /\ WF_vars(Settle)
    /\ \A w \in WorkerIds : WF_vars(WorkerRun(w)) /\ WF_vars(WorkerPush(w))

SpecBackfill == Init /\ [][NextBackfill]_vars /\ FairBackfill

----------------------------------------------------------------------------
(* RunBackfill with the floor near yesterday or far from it.               *)

\* cfg.StartDate: far enough for MaxSearchBlocks windows, or one window before
\* yesterday
FloorChoices == {StartDate, Yday - WindowSpan}

SearchScenarios ==
    { Scenario(KindNone, KindLive),
      Scenario(KindNone, KindNone),
      Scenario(KindLive, KindNone) }

InitSearch ==
    /\ pc = "bf_round"
    /\ round = 0
    /\ states = [c \in Coins |-> CoinState(Yday, 0, FALSE, 0, FALSE)]
    /\ active = {}
    /\ activeCoins = {}
    /\ pending = <<>>
    /\ inFlight = 0
    /\ tasksCh = <<>>
    /\ resultsCh = <<>>
    /\ wpc = [w \in WorkerIds |-> "idle"]
    /\ wtask = [w \in WorkerIds |-> NoTask]
    /\ wres = [w \in WorkerIds |-> NoResult]
    /\ cancelled = FALSE
    /\ \E sc \in SearchScenarios :
          /\ apiData = [c \in Coins |-> sc[c].api]
          /\ store = [c \in Coins |-> SetToBag(sc[c].held)]
    /\ lag = [c \in Coins |-> {}]
    /\ activeAPI = {}
    /\ faults = 0
    /\ owed = <<>>
    /\ runs = EmptyBag
    /\ doneVia = [c \in Coins |-> ""]
    /\ last = NoCalls
    /\ dropped = {}
    /\ tagged = {}
    /\ cfgStartDate \in FloorChoices
    /\ slept = NoSleep

SpecSearch == InitSearch /\ [][NextBackfill]_vars /\ FairBackfill

----------------------------------------------------------------------------
(* handleTask on its own: one task, one table, one API, one set of answers *)
(* of the environment.                                                     *)

\* the days of the small calendar: 0..MaxDay, MaxDay being yesterday
MaxDay == 3
Days == 0..MaxDay

TaskInputs ==
    {Task(1, from, to, retry, PhaseBackfill) :
        from \in Days, to \in Days, retry \in 0..MaxRetriesPerBlock}

InitTask ==
    /\ pc = "task"
    /\ round = 0
    /\ states = [c \in Coins |-> CoinState(MaxDay, 0, FALSE, 0, FALSE)]
    /\ active = {}
    /\ activeCoins = {}
    /\ pending = <<>>
    /\ inFlight = 0
    /\ tasksCh = <<>>
    /\ resultsCh = <<>>
    /\ wpc = [w \in WorkerIds |-> "idle"]
    /\ \E t \in TaskInputs :
          /\ t.From <= t.To
          /\ wtask = [w \in WorkerIds |-> IF w = 1 THEN t ELSE NoTask]
    /\ wres = [w \in WorkerIds |-> NoResult]
    /\ cancelled = FALSE
    /\ \E held \in SUBSET Days, api \in SUBSET Days :
          /\ store = [c \in Coins |-> IF c = 1 THEN SetToBag(held) ELSE EmptyBag]
          /\ apiData = [c \in Coins |-> IF c = 1 THEN api ELSE {}]
          /\ \E late \in SUBSET held :
                lag = [c \in Coins |-> IF c = 1 THEN late ELSE {}]
    /\ activeAPI = {}
    /\ faults = 0
    /\ owed = <<>>
    /\ runs = EmptyBag
    /\ doneVia = [c \in Coins |-> ""]
    /\ last = NoCalls
    /\ dropped = {}
    /\ tagged = {}
    /\ cfgStartDate = StartDate
    /\ slept = NoSleep

\* res := handleTask(ctx, cfg, cg, db, t)
HandleOne ==
    /\ pc = "task"
    /\ \E e \in Envs :
         LET t == wtask[1]
             h == handleTask(t, Visible(1), apiData[1], e, MaxDay)
         IN /\ wres' = [wres EXCEPT ![1] = h.res]
            /\ store' = [store EXCEPT ![1] = Written(store[1], h.rows)]
            /\ lag' = [lag EXCEPT ![1] = Lagging(lag[1], Visible(1), h)]
            /\ last' = Calls(e, h)
    /\ pc' = "task_done"
    /\ UNCHANGED <<round, states, active, activeCoins, pending, inFlight, tasksCh,
                   resultsCh, wpc, wtask, cancelled, apiData, activeAPI, faults,
                   owed, runs, doneVia, dropped, tagged,
                   cfgStartDate, slept>>

NextTask == HandleOne

SpecTask == InitTask /\ [][NextTask]_vars

----------------------------------------------------------------------------
(* handleTask's fetch loop on its own: one task on an empty table, every   *)
(* status a fetch can come back with.                                      *)

\* getJSONRaw: 0 with a transport error or a cancelled context, the HTTP status
\* when it is >= 400; MarketChartRange: 200 with a body that does not decode
FetchStatuses == {0, 200, 400, 404, 408, 425, 429, 500, 502, 503, 504}

\* one answer of cg.MarketChartRange; ctx: it failed on the cancelled context
Answer(err, status, ctx) == [err |-> err, status |-> status, ctx |-> ctx]
AnswerOK == Answer(FALSE, 200, FALSE)
Answers ==
    {AnswerOK, Answer(TRUE, 0, TRUE)}
    \cup {Answer(TRUE, code, FALSE) : code \in FetchStatuses}

\* the answers the loop reads, anything after them held at AnswerOK; a context
\* once cancelled stays cancelled
AnswersRead(outs) ==
    LET n == FetchLoop(0, outs).calls
    IN /\ \A i \in (n + 1)..Len(outs) : outs[i] = AnswerOK
       /\ \A i \in 1..n, j \in 1..n : (i < j /\ outs[i].ctx) => outs[j].ctx

FetchEnvs ==
    {e \in [preErr : BOOLEAN, fetch : [1..(MaxRetriesPerBlock + 1) -> Answers],
            reqErr : {FALSE}, insErr : BOOLEAN, lagging : {FALSE},
            verErr : {FALSE}] :
        AnswersRead(e.fetch)}

InitFetch ==
    /\ pc = "fetch"
    /\ round = 0
    /\ states = [c \in Coins |-> CoinState(MaxDay, 0, FALSE, 0, FALSE)]
    /\ active = {}
    /\ activeCoins = {}
    /\ pending = <<>>
    /\ inFlight = 0
    /\ tasksCh = <<>>
    /\ resultsCh = <<>>
    /\ wpc = [w \in WorkerIds |-> "idle"]
    /\ \E retry \in 0..MaxRetriesPerBlock :
          wtask = [w \in WorkerIds |->
                      IF w = 1 THEN Task(1, 0, MaxDay, retry, PhaseBackfill)
                      ELSE NoTask]
    /\ wres = [w \in WorkerIds |-> NoResult]
    /\ cancelled = FALSE
    /\ store = [c \in Coins |-> EmptyBag]
    /\ lag = [c \in Coins |-> {}]
    /\ \E api \in {{}, {MaxDay}} :
          apiData = [c \in Coins |-> IF c = 1 THEN api ELSE {}]
    /\ activeAPI = {}
    /\ faults = 0
    /\ owed = <<>>
    /\ runs = EmptyBag
    /\ doneVia = [c \in Coins |-> ""]
    /\ last = NoCalls
    /\ dropped = {}
    /\ tagged = {}
    /\ cfgStartDate = StartDate
    /\ slept = NoSleep

\* res := handleTask(ctx, cfg, cg, db, t)
HandleFetch ==
    /\ pc = "fetch"
    /\ \E e \in FetchEnvs :
         LET t == wtask[1]
             h == handleTask(t, Visible(1), apiData[1], e, MaxDay)
         IN /\ wres' = [wres EXCEPT ![1] = h.res]
            /\ store' = [store EXCEPT ![1] = Written(store[1], h.rows)]
            /\ lag' = [lag EXCEPT ![1] = Lagging(lag[1], Visible(1), h)]
            /\ last' = Calls(e, h)
    /\ pc' = "fetch_done"
    /\ UNCHANGED <<round, states, active, activeCoins, pending, inFlight, tasksCh,
                   resultsCh, wpc, wtask, cancelled, apiData, activeAPI, faults,
                   owed, runs, doneVia, dropped, tagged,
                   cfgStartDate, slept>>

NextFetch == HandleFetch

SpecFetch == InitFetch /\ [][NextFetch]_vars

----------------------------------------------------------------------------
(* BuildIncrementalTasks on its own: the target set and the maximum stored *)
(* day of every coin are drawn, the task list is built once.               *)

\* how far before yesterday a maximum stored day may lie
BuildSpan == 215
BuildDays == (Yday - BuildSpan)..(Yday + 2)

\* the table of a coin: empty, or holding the day m and the day before it
StoredUpTo == {EmptyBag} \cup {SetToBag({m - 1, m}) : m \in BuildDays}
\* the same for the coins after the first: a few days only
StoredUpToFew ==
    {EmptyBag} \cup {SetToBag({m - 1, m}) : m \in {Yday - WindowSpan - 2, Yday - 1, Yday}}

InitBuild ==
    /\ pc = "build"
    /\ round = 0
    /\ states = [c \in Coins |-> CoinState(Yday, 0, FALSE, 0, TRUE)]
    /\ active = {}
    /\ activeCoins \in SUBSET Coins
    /\ pending = <<>>
    /\ inFlight = 0
    /\ tasksCh = <<>>
    /\ resultsCh = <<>>
    /\ wpc = [w \in WorkerIds |-> "idle"]
    /\ wtask = [w \in WorkerIds |-> NoTask]
    /\ wres = [w \in WorkerIds |-> NoResult]
    /\ cancelled = FALSE
    /\ \E first \in StoredUpTo, rest \in StoredUpToFew :
          store = [c \in Coins |-> IF c = 1 THEN first ELSE rest]
    /\ lag = [c \in Coins |-> {}]
    /\ apiData = [c \in Coins |-> {}]
    /\ activeAPI = {}
    /\ faults = 0
    /\ owed = <<>>
    /\ runs = EmptyBag
    /\ doneVia = [c \in Coins |-> ""]
    /\ last = NoCalls
    /\ dropped = {}
    /\ tagged = {}
    /\ cfgStartDate = StartDate
    /\ slept = NoSleep

\* no getMaxDate query fails
NoMaxFail == [c \in Coins |-> FALSE]

\* main.go lines 176-192: maxDates, then tasks := BuildIncrementalTasks(...)
BuildOne ==
    /\ pc = "build"
    /\ \E order \in Perms(activeCoins) :
          pending' = BuildIncrementalTasks(order, MaxDates(NoMaxFail), Yday)
    /\ pc' = "built"
    /\ UNCHANGED <<round, states, active, activeCoins, inFlight, tasksCh, resultsCh,
                   wpc, wtask, wres, cancelled, store, lag, apiData, activeAPI,
                   faults, owed, runs, doneVia, last, dropped, tagged,
                   cfgStartDate, slept>>

NextBuild == BuildOne

SpecBuild == InitBuild /\ [][NextBuild]_vars

----------------------------------------------------------------------------
(* util.go: backoffSleep on its own, in 64-bit two's complement.  A word   *)
(* is the sequence of its bits, lowest first.                              *)

\* the width of time.Duration (int64)
Width == 64
\* the largest attempt number tried
MaxAttempt == 70
\* util.go line 202: 30 * time.Second
MaxBackoffSeconds == 30

ZeroWord == [i \in 1..Width |-> 0]

\* the word of a number 0 <= n < 2^31
Word(n) == [i \in 1..Width |-> IF i > 31 THEN 0 ELSE (n \div 2^(i - 1)) % 2]

\* x << k: the bits shifted out are lost, a count of Width or more gives 0
Shl(x, k) == [i \in 1..Width |-> IF i - k >= 1 THEN x[i - k] ELSE 0]

\* x * y from bit i on: bit i is the sum of the products x[j] * y[i - j + 1]
\* and of the carry, modulo 2; what goes beyond bit Width is lost
RECURSIVE MulFrom(_, _, _, _)
MulFrom(x, y, i, carry) ==
    IF i > Width THEN <<>>
    ELSE LET sum == carry + Cardinality({j \in 1..i : x[j] = 1 /\ y[i - j + 1] = 1})
         IN <<sum % 2>> \o MulFrom(x, y, i + 1, sum \div 2)

\* x * y modulo 2^Width
WordMul(x, y) == MulFrom(x, y, 1, 0)

Negative(x) == x[Width] = 1

\* x < y as signed numbers
WordLess(x, y) ==
    IF Negative(x) # Negative(y) THEN Negative(x)
    ELSE \E i \in 1..Width :
            /\ x[i] < y[i]
            /\ \A j \in (i + 1)..Width : x[j] = y[j]

\* time.Second, in nanoseconds
Second == Word(1000000000)

\* d := time.Second * time.Duration(1<<attempt); if d > 30s then 30s
backoffSleep(attempt) ==
    LET d   == WordMul(Second, Shl(Word(1), attempt))
        cap == WordMul(Word(MaxBackoffSeconds), Second)
    IN IF WordLess(cap, d) THEN cap ELSE d

InitBackoff ==
    /\ pc = "backoff"
    /\ round = 0
    /\ states = [c \in Coins |-> CoinState(Yday, 0, FALSE, 0, FALSE)]
    /\ active = {}
    /\ activeCoins = {}
    /\ pending = <<>>
    /\ inFlight = 0
    /\ tasksCh = <<>>
    /\ resultsCh = <<>>
    /\ wpc = [w \in WorkerIds |-> "idle"]
    /\ wtask = [w \in WorkerIds |-> NoTask]
    /\ wres = [w \in WorkerIds |-> NoResult]
    /\ cancelled = FALSE
    /\ store = [c \in Coins |-> EmptyBag]
    /\ lag = [c \in Coins |-> {}]
    /\ apiData = [c \in Coins |-> {}]
    /\ activeAPI = {}
    /\ faults = 0
    /\ owed = <<>>
    /\ runs = EmptyBag
    /\ doneVia = [c \in Coins |-> ""]
    /\ last = NoCalls
    /\ dropped = {}
    /\ tagged = {}
    /\ cfgStartDate = StartDate
    /\ \E a \in 0..MaxAttempt : slept = [attempt |-> a, d |-> <<>>]

\* worker.go line 68: backoffSleep(attempt)
BackoffOne ==
    /\ pc = "backoff"
    /\ slept' = [slept EXCEPT !.d = backoffSleep(slept.attempt)]
    /\ pc' = "backoff_done"
    /\ UNCHANGED <<round, states, active, activeCoins, pending, inFlight, tasksCh,
                   resultsCh, wpc, wtask, wres, cancelled, store, lag, apiData,
                   activeAPI, faults, owed, runs, doneVia, last, dropped, tagged,
                   cfgStartDate>>

NextBackoff == BackoffOne

SpecBackoff == InitBackoff /\ [][NextBackoff]_vars

----------------------------------------------------------------------------
(* Vocabulary of the properties.                                           *)

QueuedTasks == SeqToSet(pending) \cup SeqToSet(tasksCh)
HeldTasks == {wtask[w] : w \in {v \in WorkerIds : wpc[v] = "push"}}
ResultTasks == {resultsCh[i].Task : i \in DOMAIN resultsCh}
AllTasks == QueuedTasks \cup HeldTasks \cup ResultTasks

SelectPcs == {"bf_select", "inc_select"}
SendPcs == {"bf_send", "inc_send"}
BackfillPcs == {"bf_round", "bf_select", "bf_send"}
IncrementalPcs == {"main_loop", "main_wait", "inc_select", "inc_send"}

\* the step is a send to the task queue
SendStep == Len(tasksCh') > Len(tasksCh)
\* the step receives a result and requeues its task
RequeueStep == pc \in SelectPcs /\ Len(pending') > Len(pending)
\* the step of RunBackfill receives a result of coin c and does not requeue it
TerminalFor(c) ==
    /\ pc = "bf_select"
    /\ Len(resultsCh) > 0
    /\ resultsCh' = Tail(resultsCh)
    /\ Head(resultsCh).Task.CoinID = c
    /\ Len(pending') <= Len(pending)

----------------------------------------------------------------------------
\* C1: once a coin's CoinState is Done it stays Done for the rest of the run, no
\* step changes its SearchEnd, SearchEmpty, SeenData or ConsecutiveEmpty any
\* more, and no new backfill task of that coin enters pending or the task queue.
C1_DoneIsFinal ==
    [][\A c \in Coins :
          states[c].Done =>
             /\ states'[c] = states[c]
             /\ \A t \in SeqToSet(pending') \cup SeqToSet(tasksCh') :
                   (t.CoinID = c /\ t.Phase = PhaseBackfill) => t \in QueuedTasks]_vars

\* one coin is Done while a result of a later round waits for another coin
C1_Reached ==
    \E c \in Coins, d \in Coins :
       /\ states[c].Done
       /\ ~states[d].Done
       /\ round >= 2
       /\ pc = "bf_select"
       /\ Len(resultsCh) > 0
       /\ Head(resultsCh).Task.CoinID = d

----------------------------------------------------------------------------
\* C2: every task in pending, on the task queue or held by a worker has
\* From <= To and spans at most 100 days (To - From <= 100), and every backfill
\* task starts no earlier than the start-date floor.
C2_TaskWindows ==
    \A t \in QueuedTasks \cup HeldTasks :
       /\ t.From <= t.To
       /\ t.To - t.From <= 100
       /\ (t.Phase = PhaseBackfill => t.From >= StartDate)

\* a backfill window cut short at the floor is on the task queue
C2_Reached ==
    \E t \in SeqToSet(tasksCh) :
       /\ t.Phase = PhaseBackfill
       /\ t.From = StartDate
       /\ t.To - t.From < WindowSpan

----------------------------------------------------------------------------
\* C3: a task is requeued only on a result with missing dates whose task has
\* Retry < MaxRetriesPerBlock, and the requeued copy is the same task with Retry
\* one higher; no task ever has Retry > MaxRetriesPerBlock; one window runs
\* through handleTask at most MaxRetriesPerBlock + 1 times in a round or pass.
C3_RetryBudget ==
    /\ [](\A t \in AllTasks : t.Retry <= MaxRetriesPerBlock)
    /\ [](\A k \in BagToSet(runs) : runs[k] <= MaxRetriesPerBlock + 1)
    /\ [][RequeueStep =>
            /\ Len(resultsCh) > 0
            /\ Len(Head(resultsCh).MissingDates) > 0
            /\ Head(resultsCh).Task.Retry < MaxRetriesPerBlock
            /\ pending' = <<[Head(resultsCh).Task EXCEPT !.Retry = @ + 1]>> \o pending]_vars

\* a window has run MaxRetriesPerBlock + 1 times and its last result, still
\* with missing dates, waits for the scheduler
C3_Reached ==
    \E i \in DOMAIN resultsCh :
       /\ Len(resultsCh[i].MissingDates) > 0
       /\ resultsCh[i].Task.Retry = MaxRetriesPerBlock
       /\ WindowKey(resultsCh[i].Task) \in BagToSet(runs)
       /\ runs[WindowKey(resultsCh[i].Task)] = MaxRetriesPerBlock + 1

----------------------------------------------------------------------------
\* C4, as stated: after a requeue the next task sent to the task queue is that
\* retry task, so every retry task requeued since the last send is the one sent.
C4_NextSentIsThatRetry ==
    [][SendStep => \A i \in DOMAIN owed : owed[i] = Head(pending)]_vars

\* C4, amended: after one or more requeues the next task sent to the task queue
\* is the retry task requeued last, ahead of the retry tasks requeued before it
\* and of every task not dispatched yet.
C4_LastRequeuedIsNext ==
    [][(SendStep /\ Len(owed) > 0) =>
          /\ Head(pending) = owed[Len(owed)]
          /\ tasksCh' = Append(tasksCh, owed[Len(owed)])]_vars

\* two retry tasks were requeued one after the other and a send is due
C4_Reached ==
    /\ Len(owed) >= 2
    /\ owed[1] # owed[2]
    /\ pc \in SendPcs
    /\ SendReady

----------------------------------------------------------------------------
\* the stop rule on a coin's counters
StopRule(st) ==
    \/ st.SeenData /\ st.ConsecutiveEmpty >= EmptyStopBlocks
    \/ ~st.SeenData /\ st.SearchEmpty >= MaxSearchBlocks

\* the end date of the coin's next window lies before the floor
EndBeforeFloor(c) ==
    /\ pc = "bf_round"
    /\ \/ round = 0 /\ Yday < StartDate
       \/ round > 0 /\ Visible(c) # {} /\ MinOf(Visible(c)) - 1 < StartDate
       \/ round > 0 /\ states[c].SearchEnd < StartDate

\* C5: after a result that is not requeued is processed for a coin that was not
\* Done, the coin is Done exactly when (SeenData and ConsecutiveEmpty >=
\* EmptyStopBlocks) or (not SeenData and SearchEmpty >= MaxSearchBlocks); a coin
\* becomes Done in no other way than this or by its next window end lying before
\* the floor.
C5_DoneExactly ==
    [][\A c \in Coins :
          ~states[c].Done =>
             /\ TerminalFor(c) => (states'[c].Done <=> StopRule(states'[c]))
             /\ states'[c].Done =>
                   \/ TerminalFor(c) /\ StopRule(states'[c])
                   \/ EndBeforeFloor(c)]_vars

\* one coin was closed at the floor and another by the stop rule
C5_Reached ==
    \E c \in Coins, d \in Coins :
       /\ doneVia[c] = "floor"
       /\ doneVia[d] = "result"
       /\ StopRule(states[d])
       /\ ~StopRule(states[c])

----------------------------------------------------------------------------
\* the process ends in this step
ExitStep == Alive /\ pc' \in {"exit0", "fatal"}
\* worker w takes a task from the task queue in this step
Takes(w) == wpc[w] = "idle" /\ wpc'[w] = "push"
\* worker w pushes its result in this step
Pushes(w) == wpc[w] = "push" /\ wpc'[w] = "idle"

\* C6: a worker that dequeues a task computes one TaskResult carrying that task
\* and pushes exactly that result, once, before it takes another task; nothing
\* enters the result queue but such a push and nothing leaves the task queue but
\* by a worker's dequeue; a worker holds one task at a time.  Only the end of
\* the process takes a task from a worker without a push.
C6_OneResultPerTask ==
    [][/\ \A w \in WorkerIds :
             Takes(w) =>
                /\ Len(tasksCh) > 0
                /\ tasksCh' = Tail(tasksCh)
                /\ wtask'[w] = Head(tasksCh)
                /\ wres'[w].Task = Head(tasksCh)
                /\ \A v \in WorkerIds \ {w} : wpc'[v] = wpc[v] /\ wtask'[v] = wtask[v]
       /\ \A w \in WorkerIds :
             wpc[w] = "push" =>
                \/ wpc'[w] = "push" /\ wtask'[w] = wtask[w] /\ wres'[w] = wres[w]
                \/ /\ Pushes(w)
                   /\ wres[w].Task = wtask[w]
                   /\ resultsCh' = Append(resultsCh, wres[w])
                \/ ExitStep
       /\ Len(resultsCh') > Len(resultsCh) =>
             \E w \in WorkerIds : Pushes(w) /\ resultsCh' = Append(resultsCh, wres[w])
       /\ tasksCh' # tasksCh =>
             \/ SendStep /\ tasksCh' = Append(tasksCh, Head(pending))
             \/ \E w \in WorkerIds : Takes(w)
             \/ ExitStep]_vars

\* one worker has pushed the result of its task, the other one holds the result
\* of the task it took
C6_Reached ==
    \E w \in WorkerIds, v \in WorkerIds :
       /\ wpc[w] = "idle"
       /\ wpc[v] = "push"
       /\ wres[v].Task = wtask[v]
       /\ Len(resultsCh) > 0
       /\ resultsCh[Len(resultsCh)].Task # wtask[v]

----------------------------------------------------------------------------
\* C7: a task is sent to the task queue only from the inner select of a
\* dispatch-loop iteration, and an iteration gets to its inner select only if
\* the result queue was empty when it made its choice: with a result available
\* the iteration sends no task.
C7_ResultsFirst ==
    [][/\ SendStep => pc \in SendPcs
       /\ (pc \in SelectPcs /\ pc' \in SendPcs) => Len(resultsCh) = 0]_vars

\* an iteration is about to choose with a result available and a send possible
C7_Reached ==
    /\ pc \in SelectPcs
    /\ Len(resultsCh) > 0
    /\ SendReady
    /\ ~cancelled

----------------------------------------------------------------------------
\* C8: with no cancellation, every call returning and every goroutine scheduled
\* fairly, RunBackfill comes to a round in which every coin is Done and returns.
C8_BackfillTerminates ==
    <>(pc = "bf_return" /\ \A c \in Coins : states[c].Done)

----------------------------------------------------------------------------
\* an incremental pass starts in this step
PassStart == pc = "main_loop" /\ pc' \in {"inc_select", "main_wait"}

\* C9: an incremental task exists only after RunBackfill has returned with every
\* coin Done; when an incremental pass starts the task queue and the result
\* queue are empty and no worker holds a task, so nothing of the backfill or of
\* an earlier pass is left and passes do not overlap.
C9_PhasesApart ==
    /\ [](\A t \in AllTasks :
             t.Phase = PhaseIncremental =>
                /\ pc \in IncrementalPcs
                /\ \A c \in Coins : states[c].Done)
    /\ [](pc \in BackfillPcs => \A t \in AllTasks : t.Phase = PhaseBackfill)
    /\ [][PassStart =>
            /\ tasksCh = <<>>
            /\ resultsCh = <<>>
            /\ \A w \in WorkerIds : wpc[w] # "push"
            /\ \A t \in SeqToSet(pending') : t.Phase = PhaseIncremental]_vars

\* a pass with tasks has started on empty queues and idle workers, the table
\* holding rows that the backfill wrote
C9_Reached ==
    /\ pc = "inc_select"
    /\ inFlight = 0
    /\ Len(pending) > 0
    /\ tasksCh = <<>>
    /\ resultsCh = <<>>
    /\ \A w \in WorkerIds : wpc[w] = "idle"
    /\ \A c \in Coins : states[c].Done
    /\ \E c \in Coins : doneVia[c] = "floor"

----------------------------------------------------------------------------
\* handleTask runs in this step of SpecTask
HandleStep == pc = "task" /\ pc' = "task_done"
\* the task under test and its window
Given == wtask[1]
Window == daysInclusive(Given.From, Given.To)
\* the fast-path outcome: nothing inserted, not empty, no error, no calls, the
\* table as it was
FastOutcome ==
    /\ wres'[1].Task = Given
    /\ wres'[1].Inserted = 0
    /\ ~wres'[1].Empty
    /\ wres'[1].Err = ""
    /\ last'.fetches = 0
    /\ last'.inserts = 0
    /\ store' = store

\* C10, as stated: with Retry = 0 and every day of [From, To] present in the
\* table, handleTask returns inserted = 0, empty = false and no error, makes no
\* fetch and no insert and leaves the table unchanged.
C10_FastPathWhenStored ==
    [][(HandleStep /\ Given.Retry = 0 /\ Window \subseteq BagToSet(store[1]))
          => FastOutcome]_vars

\* C10, amended: the same, provided the presence query of the pre-check
\* succeeds and reports every day of [From, To].
C10_FastPathWhenReported ==
    [][(HandleStep /\ Given.Retry = 0 /\ ~last'.e.preErr
          /\ Window \subseteq Visible(1))
          => FastOutcome]_vars

\* handleTask has taken the fast path on a window of several days
C10_Reached ==
    /\ pc = "task_done"
    /\ Given.Retry = 0
    /\ Given.To > Given.From
    /\ Window \subseteq BagToSet(store[1])
    /\ apiData[1] # {}
    /\ ~last.e.preErr
    /\ last.fetches = 0
    /\ wres[1] = TaskResult(Given, 0, 0, FALSE, 200, "", <<>>, FALSE)

----------------------------------------------------------------------------
\* the aggregated API days of the task under test
ApiDays == {d \in apiData[1] : d >= Given.From /\ d <= Given.To}
\* the days the table holds for the coin in the window
HeldDays == {d \in BagToSet(store[1]) : d >= Given.From /\ d <= Given.To}
\* the days handleTask writes in this step
WrittenDays ==
    {d \in BagToSet(store'[1]) :
        d \notin BagToSet(store[1]) \/ store'[1][d] > store[1][d]}
\* the days the presence answer in use reports: the pre-check's answer, else the
\* fresh query's, else none
KnownDays ==
    IF last'.e.preErr /\ last'.e.reqErr THEN {}
    ELSE {d \in Visible(1) : d >= Given.From /\ d <= Given.To}
\* the days the table reports for the window after the step
ReportedAfter ==
    {d \in BagToSet(store'[1]) \ lag'[1] : d >= Given.From /\ d <= Given.To}
\* handleTask got past the insert in this step
PastInsert ==
    /\ HandleStep
    /\ last'.fetches > 0
    /\ wres'[1].Err = ""
    /\ ~wres'[1].Empty
\* s lists exactly the days of S, ascending
AscendingOf(s, S) ==
    /\ SeqToSet(s) = S
    /\ \A i \in DOMAIN s, j \in DOMAIN s : i < j => s[i] < s[j]

----------------------------------------------------------------------------
\* handleTask runs in this step of SpecFetch
FetchStep == pc = "fetch" /\ pc' = "fetch_done"
\* the statuses the fetch loop retries on
RetryableSet == {0, 408, 425, 429, 500, 502, 503, 504}
\* the answer of attempt i failed, with a status to retry on / not to retry on
FailedRetryable(i) ==
    last'.e.fetch[i].err /\ last'.e.fetch[i].status \in RetryableSet
FailedForGood(i) ==
    last'.e.fetch[i].err /\ last'.e.fetch[i].status \notin RetryableSet

\* C12: one run of handleTask makes its fetch attempts one after the other; an
\* attempt that fails with a non-retryable status is the last one (a single
\* fetch call when it is the first), an attempt that fails with a retryable
\* status (0, 408, 425, 429, 500, 502, 503, 504) is followed by another one
\* exactly while attempts remain, MaxRetriesPerBlock + 1 fetch calls at most;
\* when the last attempt failed the result has empty = true, the error
\* recorded, inserted = 0, and no insert is made.
C12_FetchRetry ==
    [][FetchStep =>
          LET n == last'.fetches
          IN /\ n >= 1
             /\ n <= MaxRetriesPerBlock + 1
             /\ \A i \in 1..(n - 1) : FailedRetryable(i)
             /\ FailedRetryable(n) => n = MaxRetriesPerBlock + 1
             /\ (FailedForGood(1) => n = 1)
             /\ last'.e.fetch[n].err =>
                   /\ wres'[1].Empty
                   /\ wres'[1].Err = "fetch"
                   /\ wres'[1].HTTPStatus = last'.e.fetch[n].status
                   /\ wres'[1].Inserted = 0
                   /\ last'.inserts = 0
                   /\ store' = store]_vars

\* a fetch was retried on a retryable status until the attempts ran out, on a
\* window the API has data for
C12_Reached ==
    /\ pc = "fetch_done"
    /\ last.fetches = MaxRetriesPerBlock + 1
    /\ \A i \in DOMAIN last.e.fetch :
          last.e.fetch[i].err /\ last.e.fetch[i].status = 503
    /\ wres[1].Empty
    /\ wres[1].Err = "fetch"
    /\ apiData[1] # {}
    /\ store[1] = EmptyBag

----------------------------------------------------------------------------
\* C14: once a fetch attempt of handleTask has returned on the cancelled
\* context, that attempt is the last one of the task and no backoff sleep
\* follows it.
C14_NoRetryOnceCancelled ==
    [][FetchStep =>
          \A i \in 1..last'.fetches :
             last'.e.fetch[i].ctx =>
                /\ last'.fetches = i
                /\ last'.sleeps < i]_vars

----------------------------------------------------------------------------
\* C13: once cancellation has been signalled no worker takes another task from
\* the task queue.
C13_NoDequeueOnceCancelled ==
    [][cancelled => \A w \in WorkerIds : ~Takes(w)]_vars

----------------------------------------------------------------------------
\* C15: whenever the termination signal comes after startup, the process ends
\* with status 0: it never ends through log.Fatalf.
C15_ExitsZero == pc # "fatal"

----------------------------------------------------------------------------
(* A failed insert.                                                        *)

\* the API days that fall into the window of task t
ApiDaysOf(t) == {d \in apiData[t.CoinID] : d >= t.From /\ d <= t.To}
\* the result of a handleTask whose insert failed
InsertFailed(res) == res.Err = "insert"
\* what such a result carries
InsertFailedShape(res) ==
    /\ res.Inserted = 0
    /\ ~res.Empty
    /\ res.APIDays = Cardinality(ApiDaysOf(res.Task))
    /\ res.APIDays > 0
\* RunBackfill takes a result of a failed insert from the result queue
TakesInsertFailed ==
    /\ pc = "bf_select"
    /\ Len(resultsCh) > 0
    /\ resultsCh' = Tail(resultsCh)
    /\ pc' \in BackfillPcs
    /\ InsertFailed(Head(resultsCh))

\* C16: a handleTask whose insert fails writes nothing and hands back a result
\* with the error text, Inserted = 0, Empty = false and the number of API days of
\* the window; when RunBackfill processes that result the coin's SeenData stays
\* as it was and neither empty counter goes down.
C16_InsertFailure ==
    [][/\ \A w \in WorkerIds :
            Takes(w) /\ InsertFailed(wres'[w]) =>
                /\ InsertFailedShape(wres'[w])
                /\ wres'[w].Task = Head(tasksCh)
                /\ store' = store
       /\ TakesInsertFailed =>
            LET c == Head(resultsCh).Task.CoinID
            IN /\ InsertFailedShape(Head(resultsCh))
               /\ states'[c].SeenData = states[c].SeenData
               /\ states'[c].SearchEmpty >= states[c].SearchEmpty
               /\ states'[c].ConsecutiveEmpty >= states[c].ConsecutiveEmpty
               /\ ~states[c].Done =>
                    \/ states'[c].SearchEmpty > states[c].SearchEmpty
                    \/ states'[c].ConsecutiveEmpty > states[c].ConsecutiveEmpty]_vars

\* RunBackfill is about to process the result of a failed insert for a coin
\* that is not done and has shown no data yet
C16_Reached ==
    /\ pc = "bf_select"
    /\ Len(resultsCh) > 0
    /\ InsertFailed(Head(resultsCh))
    /\ ~states[Head(resultsCh).Task.CoinID].Done
    /\ ~states[Head(resultsCh).Task.CoinID].SeenData

----------------------------------------------------------------------------
(* Results with an error in an incremental pass.                           *)

\* runIncrementalOnce takes a result from the result queue
IncTakes ==
    /\ pc = "inc_select"
    /\ Len(resultsCh) > 0
    /\ resultsCh' = Tail(resultsCh)
    /\ pc' \in IncrementalPcs
\* the recomputed maximum stored day of the window's coin lies before the window,
\* so that BuildIncrementalTasks cuts windows that cover it
BuiltAgain(t) ==
    /\ Visible(t.CoinID) # {}
    /\ MaxOf(Visible(t.CoinID)) < t.From

\* C18: a result with an error is not requeued in the pass, a result without an
\* error and with missing dates is requeued while its retry count is below
\* MaxRetriesPerBlock, and when the next pass starts the maximum stored day of
\* every dropped window's coin still lies before that window.
C18_DroppedComesBack ==
    [][/\ IncTakes /\ Head(resultsCh).Err # "" =>
            pending' = pending /\ inFlight' = inFlight - 1
       /\ IncTakes /\ Head(resultsCh).Err = "" /\ NeedsRetry(Head(resultsCh)) =>
            pending' = <<RetryOf(Head(resultsCh).Task)>> \o pending
       /\ PassStart => \A t \in dropped : BuiltAgain(t)]_vars

----------------------------------------------------------------------------
(* The coins RunBackfill returns as active.                                *)

\* C19: the map a completed RunBackfill returns holds exactly the coins for
\* which a result it received carried ActiveNow = true.
C19_ActiveIsTagged == pc = "bf_return" => active = tagged

----------------------------------------------------------------------------
(* The windows of an incremental pass.                                     *)

\* the tasks of coin c in the built list, in list order
TasksOf(c) ==
    LET Mine(t) == t.CoinID = c
    IN SelectSeq(pending, Mine)
\* the coin is in the target set and its maximum stored day is known
MaxKnown(c) == c \in activeCoins /\ Visible(c) # {}
\* ts cuts [from, to] into consecutive windows of at most WindowSpan + 1 days
CutsInto(ts, from, to) ==
    /\ Len(ts) >= 1
    /\ ts[1].From = from
    /\ ts[Len(ts)].To = to
    /\ \A i \in DOMAIN ts :
          /\ ts[i].From <= ts[i].To
          /\ ts[i].To - ts[i].From + 1 <= WindowSpan + 1
          /\ ts[i].Retry = 0
          /\ ts[i].Phase = PhaseIncremental
          /\ i < Len(ts) => ts[i + 1].From = ts[i].To + 1

\* C17: for every coin of the target set with a known maximum stored day m
\* before yesterday the built list holds consecutive, non-overlapping windows of
\* at most 100 days that cover exactly [m + 1, yesterday]; a coin with
\* m >= yesterday, with no stored day or outside the target set has no task.
C17_IncrementalWindows ==
    pc = "built" =>
        \A c \in Coins :
            IF MaxKnown(c) /\ MaxOf(Visible(c)) < Yday
            THEN CutsInto(TasksOf(c), MaxOf(Visible(c)) + 1, Yday)
            ELSE TasksOf(c) = <<>>

\* a built list with three windows for one coin and none for another coin of the
\* target set whose maximum stored day is yesterday or later
C17_Reached ==
    /\ pc = "built"
    /\ \E c \in activeCoins : Len(TasksOf(c)) >= 3
    /\ \E c \in activeCoins :
          Visible(c) # {} /\ MaxOf(Visible(c)) >= Yday /\ TasksOf(c) = <<>>

----------------------------------------------------------------------------
(* Records per coin and day.                                               *)

\* the table holds no day of any coin twice
OneRecordPerDay ==
    \A c \in Coins : \A d \in BagToSet(store[c]) : CopiesIn(d, store[c]) <= 1
\* the days of coin c that get a record in this step
DaysAdded(c) ==
    {d \in BagToSet(store'[c]) : CopiesIn(d, store'[c]) > CopiesIn(d, store[c])}
\* both presence queries of the handleTask of this step failed
BothQueriesFailed == faults' >= faults + 2

----------------------------------------------------------------------------
(* A coin without data.                                                    *)

\* the API has no sample for the coin and the table holds no day of it
NoData(c) == apiData[c] = {} /\ BagToSet(store[c]) = {}
\* RunBackfill stands between two rounds
BetweenRounds == pc = "bf_round"

\* C21 as stated: a coin without data is Done only with SeenData = false and
\* SearchEmpty = MaxSearchBlocks.
C21_DoneAtMaxSearch ==
    \A c \in Coins :
        NoData(c) /\ states[c].Done =>
            ~states[c].SeenData /\ states[c].SearchEmpty = MaxSearchBlocks

\* C21: a coin without data has SearchEmpty = the number of rounds run so far; it
\* becomes Done with SeenData = false by the result of round MaxSearchBlocks,
\* not earlier and not later, unless the end of its next window falls before
\* the floor first: then it is Done after fewer rounds; with no cancellation it
\* becomes Done.
C21_DoneAtMaxSearchOrFloor ==
    /\ [](\A c \in Coins :
            NoData(c) =>
               /\ ~states[c].SeenData
               /\ states[c].SearchEmpty <= MaxSearchBlocks
               /\ BetweenRounds /\ doneVia[c] = "" => states[c].SearchEmpty = round
               /\ doneVia[c] = "" => ~states[c].Done
               /\ doneVia[c] = "result" =>
                    /\ states[c].Done
                    /\ states[c].SearchEmpty = MaxSearchBlocks
               /\ doneVia[c] = "floor" =>
                    /\ states[c].Done
                    /\ states[c].SearchEmpty < MaxSearchBlocks
                    /\ states[c].SearchEnd < cfgStartDate)
    /\ <>(\A c \in Coins : NoData(c) => states[c].Done)

\* a coin without data is Done by the result of round MaxSearchBlocks, the floor
\* lying further back
C21_Reached ==
    \E c \in Coins :
        /\ NoData(c)
        /\ states[c].Done
        /\ doneVia[c] = "result"
        /\ states[c].SearchEmpty = MaxSearchBlocks
        /\ Yday - cfgStartDate > WindowSpan

----------------------------------------------------------------------------
(* The windows of consecutive rounds.                                      *)

\* RunBackfill schedules a round in this step
RoundStart == pc = "bf_round" /\ pc' = "bf_select"
\* the windows of coin c that handleTask ran in the round that has just ended
RanFor(c) == {k \in BagToSet(runs) : k[1] = c}

\* the window ends the day before the first day the table reports for its coin
EndsBeforeStored(t) ==
    Visible(t.CoinID) # {} /\ t.To = MinOf(Visible(t.CoinID)) - 1

\* C22: once data has been seen for a coin, the window scheduled for it in a
\* round (its end taken from the table's minimum day) ends strictly before the
\* window it had in the round before, so that no window is fetched again in
\* the next round.
C22_WalksBackward ==
    [][RoundStart =>
          \A i \in DOMAIN pending' :
              LET t == pending'[i]
              IN states[t.CoinID].SeenData /\ EndsBeforeStored(t) =>
                    \A k \in RanFor(t.CoinID) : t.To < k[3]]_vars

----------------------------------------------------------------------------
(* The ActiveNow tag.                                                      *)

\* the handleTask of this step came to its verify step
ReachesVerify ==
    /\ HandleStep
    /\ wres'[1].Err = ""
    /\ ~wres'[1].Empty
    /\ wres'[1].APIDays > 0
\* the day lies within ActiveTolerance days of yesterday
NearYesterday(d) == d >= MaxDay - ActiveTolerance

\* C23: a handleTask that comes to its verify step sets ActiveNow exactly when
\* the task's To and the latest API day of the window are both within 2 days of
\* yesterday.
C23_ActiveNowWithinTwoDays ==
    [][ReachesVerify =>
          (wres'[1].ActiveNow <=>
              NearYesterday(Given.To) /\ NearYesterday(MaxOf(ApiDays)))]_vars

----------------------------------------------------------------------------
(* The backoff delay.                                                      *)

\* min(2^a, 30) seconds as a word
MinBackoff(a) ==
    WordMul(Word(IF a >= 5 THEN MaxBackoffSeconds ELSE 2^a), Second)

\* C24: for every attempt number a >= 0 backoffSleep(a) is min(2^a, 30) seconds,
\* and it is not below backoffSleep(a - 1).
C24_BackoffIsCappedPower ==
    pc = "backoff_done" =>
        /\ slept.d = MinBackoff(slept.attempt)
        /\ slept.attempt > 0 => ~WordLess(slept.d, backoffSleep(slept.attempt - 1))

----------------------------------------------------------------------------
(* What changes a CoinState.                                               *)

\* RunBackfill takes a result from the result queue in this step
BfTakes ==
    /\ pc = "bf_select"
    /\ Len(resultsCh) > 0
    /\ resultsCh' = Tail(resultsCh)
    /\ pc' \in BackfillPcs
\* it puts the result's task back on pending
BfRequeues == BfTakes /\ pending' # pending
\* the result is terminal for coin c, which is not done
BfCloses(c) ==
    /\ BfTakes
    /\ pending' = pending
    /\ Head(resultsCh).Task.CoinID = c
    /\ ~states[c].Done
\* the result carries data
HasData(res) == res.Err = "" /\ ~res.Empty /\ res.APIDays > 0
\* the counters and the cursor of st after the terminal result res, next to st
CountersAfter(st, nx, res) ==
    IF HasData(res)
    THEN /\ nx.SeenData
         /\ nx.SearchEmpty = 0
         /\ nx.ConsecutiveEmpty = 0
         /\ nx.SearchEnd = st.SearchEnd
    ELSE IF st.SeenData
    THEN /\ nx.SeenData
         /\ nx.ConsecutiveEmpty = st.ConsecutiveEmpty + 1
         /\ nx.SearchEmpty = st.SearchEmpty
         /\ nx.SearchEnd = st.SearchEnd
    ELSE /\ ~nx.SeenData
         /\ nx.SearchEmpty = st.SearchEmpty + 1
         /\ nx.SearchEnd = Head(resultsCh).Task.From - 1
         /\ nx.ConsecutiveEmpty = st.ConsecutiveEmpty
\* the scheduling of a round marks coin c Done and changes nothing else of it
ClosedAtFloor(c) ==
    /\ pc = "bf_round"
    /\ ~states[c].Done
    /\ states'[c] = [states[c] EXCEPT !.Done = TRUE]

\* C25 as stated: a CoinState changes only in a step that processes a terminal
\* result of its coin, the counters and the cursor changing as the result says;
\* a requeued result changes no CoinState.
C25_OnlyTerminalResults ==
    [][/\ \A c \in Coins :
            states'[c] # states[c] =>
                /\ BfCloses(c)
                /\ CountersAfter(states[c], states'[c], Head(resultsCh))
       /\ BfRequeues => states' = states]_vars

\* C25: a CoinState changes only in a step that processes a terminal result of
\* its coin, which is not done, or in the scheduling of a round, which marks the
\* coin Done when its next window would end before the floor; a terminal result
\* changes the counters and the cursor as it says and sets Done exactly when
\* the completion test holds afterwards; a requeued result changes no
\* CoinState.
C25_TerminalResultsAndFloor ==
    [][/\ \A c \in Coins :
            states'[c] # states[c] => BfCloses(c) \/ ClosedAtFloor(c)
       /\ \A c \in Coins :
            BfCloses(c) =>
                /\ CountersAfter(states[c], states'[c], Head(resultsCh))
                /\ states'[c].Done = StopRule(states'[c])
       /\ BfRequeues => states' = states]_vars

\* the three kinds of terminal result have been processed: one coin has seen data
\* and counts an empty window after it, another has moved its cursor back
C25_Reached ==
    /\ pc \in BackfillPcs
    /\ \E c \in Coins : states[c].SeenData /\ states[c].ConsecutiveEmpty > 0
    /\ \E c \in Coins :
          ~states[c].SeenData /\ states[c].SearchEmpty > 0 /\ states[c].SearchEnd < Yday

----------------------------------------------------------------------------
(* The window of a round.                                                  *)

\* the window of at most WindowSpan + 1 days that ends at day end, cut at the floor
WindowTo(t, end) ==
    /\ t.To = end
    /\ t.From = MaxOf({cfgStartDate, end - WindowSpan})
\* the day before the first day the table reports for coin c
BeforeStored(c) == MinOf(Visible(c)) - 1
\* the tasks scheduled by this step for coin c
ScheduledFor(c) == {pending'[i] : i \in {j \in DOMAIN pending' : pending'[j].CoinID = c}}

----------------------------------------------------------------------------
(* The result of a covered window.                                         *)

\* the result of handleTask's fast path: no error, not empty, no API day
FastResult(res) == res.Err = "" /\ ~res.Empty /\ res.APIDays = 0 /\ res.Inserted = 0

\* C27: when RunBackfill processes the fast-path result of a window that the
\* table covers, it counts no empty window: SearchEmpty, ConsecutiveEmpty and
\* the search-end cursor of the coin stay as they are.
C27_CoveredWindowNotCounted ==
    [][BfTakes /\ FastResult(Head(resultsCh)) =>
          LET c == Head(resultsCh).Task.CoinID
          IN /\ states'[c].SearchEmpty = states[c].SearchEmpty
             /\ states'[c].ConsecutiveEmpty = states[c].ConsecutiveEmpty
             /\ states'[c].SearchEnd = states[c].SearchEnd]_vars

----------------------------------------------------------------------------
(* Results with missing dates.                                             *)

\* the results handleTask has produced that no loop has taken yet
ResultsAbout ==
    {resultsCh[i] : i \in DOMAIN resultsCh}
        \cup {wres[w] : w \in {v \in WorkerIds : wpc[v] = "push"}}
\* the test of RunBackfill: missing dates first
RequeueByBackfill(res) ==
    Len(res.MissingDates) > 0 /\ res.Task.Retry < MaxRetriesPerBlock
\* the test of runIncrementalOnce: the error first
RequeueByIncremental(res) ==
    /\ res.Err = ""
    /\ Len(res.MissingDates) > 0
    /\ res.Task.Retry < MaxRetriesPerBlock

\* C28: a result of handleTask with missing dates has no error, is not empty,
\* has APIDays > 0 and every missing date is an API day of its window; both
\* loops decide alike on every result: RunBackfill requeues exactly the results
\* that the test of runIncrementalOnce picks, and the other way round.
C28_MissingMeansNoError ==
    /\ [](\A res \in ResultsAbout :
             /\ Len(res.MissingDates) > 0 =>
                   /\ res.Err = ""
                   /\ ~res.Empty
                   /\ res.APIDays > 0
                   /\ SeqToSet(res.MissingDates) \subseteq ApiDaysOf(res.Task)
             /\ RequeueByBackfill(res) <=> RequeueByIncremental(res))
    /\ [][/\ BfTakes => (BfRequeues <=> RequeueByIncremental(Head(resultsCh)))
          /\ IncTakes => (pending' # pending <=> RequeueByBackfill(Head(resultsCh)))]_vars

\* an incremental pass is about to take a result with missing dates whose task
\* can be retried
C28_Reached ==
    /\ pc = "inc_select"
    /\ Len(resultsCh) > 0
    /\ RequeueByIncremental(Head(resultsCh))

----------------------------------------------------------------------------
(* The in-flight counter.                                                  *)

\* the scheduler is inside the dispatch loop of a round or of a pass
InLoop == pc \in SelectPcs \cup SendPcs
HoldingWorkers == {w \in WorkerIds : wpc[w] = "push"}
\* tasks sent and not yet answered to the scheduler
Outstanding == Len(tasksCh) + Cardinality(HoldingWorkers) + Len(resultsCh)
\* the same, for one coin
OutstandingOf(c) ==
    Cardinality({i \in DOMAIN tasksCh : tasksCh[i].CoinID = c})
        + Cardinality({w \in HoldingWorkers : wtask[w].CoinID = c})
        + Cardinality({i \in DOMAIN resultsCh : resultsCh[i].Task.CoinID = c})
\* the loop goes on for tasks in flight and there is none anywhere
WaitsForNothing ==
    /\ inFlight > 0
    /\ pending = <<>>
    /\ tasksCh = <<>>
    /\ resultsCh = <<>>
    /\ HoldingWorkers = {}
\* every worker waits to push on a full result queue, the task queue is full
\* and the scheduler has a task to send
AllBlocked ==
    /\ HoldingWorkers = WorkerIds
    /\ Len(resultsCh) = ResultsCap
    /\ Len(tasksCh) = TasksCap
    /\ pending # <<>>

\* nothing can move: no result to take, no task that can be sent, no worker
\* that can dequeue a task or push its result
NothingMoves ==
    /\ resultsCh = <<>>
    /\ pending = <<>> \/ Len(tasksCh) = TasksCap
    /\ \A w \in WorkerIds :
          \/ wpc[w] = "idle" /\ tasksCh = <<>>
          \/ wpc[w] = "push" /\ Len(resultsCh) = ResultsCap

====
